---- MODULE Spec2Model ----
(***************************************************************************)
(* Model of the talks application's data layer (src/app/models.py): the    *)
(* User, Talk, Comment and PendingEmail tables, the signed time-limited    *)
(* tokens, comment sanitization, moderation and notification fan-out.      *)
(*                                                                         *)
(* Conventions.  A NULL integer column (or a missing JSON key read with    *)
(* dict.get) is NoId = 0: primary keys start at 1 and the code tests ids   *)
(* by truthiness.  A NULL string column is NoEmail.  An optional text      *)
(* value (body, body_html) is a sequence of length <= 1: None is << >>,    *)
(* the text t is << t >>.  A text is a sequence of lexical items, written   *)
(* on one line with blanks between them.  html_direct is a history         *)
(* variable: the comments whose body_html was last written directly (by    *)
(* assignment or constructor keyword) and not by the listener of body.     *)
(***************************************************************************)
EXTENDS Integers, Sequences, FiniteSets, TLC

VARIABLES users, talks, comments, pending, tokens, now, call, html_direct

vars == <<users, talks, comments, pending, tokens, now, call, html_direct>>

\* ------------------------------------------------------------------ bounds
MaxLen == 2
MaxBodyComments == 2
MaxUsers == 2
MaxTalks == 2
MaxQueue == 4
MaxComments == 2
MaxTokens == 1
MaxTime == 2
MaxKey == 3

\* ------------------------------------------------------------ null values
NoId == 0
NoEmail == "None"
None == << >>
Some(v) == << v >>

Emails == {"a@x", "b@x", "c@x"}

\* The record of the last operation under study (a body write, a queue
\* operation, a token operation): its name, the row or token it was applied
\* to, and what it returned.
NoPayload == [user |-> NoId, talk |-> NoId, email |-> NoEmail]
NoToken == [parts_ok |-> FALSE, iat |-> 0, exp |-> 0, payload |-> NoPayload,
            sig |-> [key |-> "none", iat |-> 0, exp |-> 0, payload |-> NoPayload]]
Call(op, id, token, ret_id, ret_email) ==
    [op |-> op, id |-> id, token |-> token, ret_id |-> ret_id, ret_email |-> ret_email]
\* What a plain insert, delete or column update leaves as the record.
Quiet == Call("-", NoId, NoToken, NoId, NoEmail)

\* ------------------------------------------------------------------ tables
\* A table is a function from the primary keys of its rows to the rows.
Insert(table, row) ==
    LET id == IF DOMAIN table = {} THEN 1
              ELSE 1 + CHOOSE m \in DOMAIN table : \A k \in DOMAIN table : k <= m
    IN  [k \in DOMAIN table \cup {id} |-> IF k = id THEN row ELSE table[k]]
LastId(table) ==
    IF DOMAIN table = {} THEN NoId
    ELSE CHOOSE m \in DOMAIN table : \A k \in DOMAIN table : k <= m

\* ------------------------------------------------------------ sanitization
\* Lexical items of a comment body that sanitization acts on: an inline tag
\* outside the whitelist and a bare URL.  Plain text and allowed tags pass
\* through unchanged.
Url == "http://x.com"
Items == {"<span>", Url}
RECURSIVE SeqsUpTo(_, _)
SeqsUpTo(S, n) ==
    IF n = 0 THEN {<< >>}
    ELSE LET shorter == SeqsUpTo(S, n - 1)
         IN  shorter \cup {Append(s, x) : s \in shorter, x \in S}
Bodies == SeqsUpTo(Items, MaxLen)
\* Values a caller may assign to body_html directly.
HtmlInputs == {<<"<span>">>}

Tags == {"<a>", "</a>", "<b>", "<p>", "</p>", "<span>"}
allowed_tags == {"<a>", "</a>", "<b>", "<p>", "</p>"}

\* markdown(value, output_format='html'): a blank source gives the empty
\* text; a line of text, inline tags and URLs becomes one paragraph, the
\* inline raw HTML kept inside it.
markdown(value) == IF value = << >> THEN << >> ELSE <<"<p>">> \o value \o <<"</p>">>

\* bleach.clean(html, tags=allowed_tags, strip=True): tags outside the
\* whitelist are removed, everything else is kept.
RECURSIVE clean(_)
clean(html) ==
    IF html = << >> THEN << >>
    ELSE LET x == Head(html)
         IN  IF x \in Tags /\ x \notin allowed_tags
             THEN clean(Tail(html))
             ELSE <<x>> \o clean(Tail(html))

\* bleach.linkify(html): a bare URL is wrapped in an anchor.
RECURSIVE linkify(_)
linkify(html) ==
    IF html = << >> THEN << >>
    ELSE LET x == Head(html)
         IN  IF x = Url
             THEN <<"<a>", x, "</a>">> \o linkify(Tail(html))
             ELSE <<x>> \o linkify(Tail(html))

Sanitize(value) == linkify(clean(markdown(value)))

\* The mutant of on_changed_body: the listener stores the raw body.
on_changed_body_raw(target, value) == [target EXCEPT !.body_html = Some(value)]

\* Comment.on_changed_body, the 'set' listener of Comment.body: runs before
\* the new body is stored and writes body_html on the target.
on_changed_body(target, value) == [target EXCEPT !.body_html = Some(Sanitize(value))]

\* Assignment to Comment.body: the listener fires, then the value is stored.
SetBodyAttr(target, value) == [on_changed_body(target, value) EXCEPT !.body = Some(value)]

\* A Comment row built by the declarative constructor: every column is NULL
\* unless given; notify and approved take their column defaults on insert.
BlankComment ==
    [talk_id |-> NoId, author_id |-> NoId, author_email |-> NoEmail,
     notify |-> TRUE, approved |-> FALSE, body |-> None, body_html |-> None]

\* ---------------------------------------------------------------- avatars
\* hashlib.md5(email.encode('utf-8')).hexdigest(): an injective tag on the
\* addresses of the model.
md5(email) == "md5:" \o email
NoHash == "None"
Hashes == {md5(e) : e \in Emails} \cup {"custom"}

\* User.__init__(**kwargs): the keyword arguments are stored, then the hash is
\* computed if an email was given and no hash was.
UserInit(email, avatar_hash, is_admin) ==
    [email |-> email, is_admin |-> is_admin,
     avatar_hash |-> IF email # NoEmail /\ avatar_hash = NoHash
                     THEN md5(email) ELSE avatar_hash]

\* The row as inserted at time t: member_since takes its default, utcnow.
RegisteredAt(row, t) ==
    [email |-> row.email, is_admin |-> row.is_admin, avatar_hash |-> row.avatar_hash,
     member_since |-> t]

\* ------------------------------------------------------------------- init
EmptyDb ==
    /\ users = << >>
    /\ talks = << >>
    /\ comments = << >>
    /\ pending = << >>
    /\ tokens = {}
    /\ now = 0
    /\ call = Call("init", NoId, NoToken, NoId, NoEmail)
    /\ html_direct = {}

Init == EmptyDb

\* ------------------------------------------------- comment body operations
\* Comment(body=value) added to the session.
NewCommentWithBody(value) ==
    /\ Cardinality(DOMAIN comments) < MaxBodyComments
    /\ comments' = Insert(comments, SetBodyAttr(BlankComment, value))
    /\ call' = Call("Comment(body)", LastId(comments'), NoToken, NoId, NoEmail)
    /\ UNCHANGED <<users, talks, pending, tokens, now, html_direct>>

\* Comment(body=value, body_html=html): the declarative constructor sets the
\* keywords one after the other, in the order the keyword dictionary yields
\* them; whichever of the two is set last decides body_html.
NewCommentWithBoth(value, html, html_last) ==
    /\ Cardinality(DOMAIN comments) < MaxBodyComments
    /\ comments' = Insert(comments,
          IF html_last
          THEN [SetBodyAttr(BlankComment, value) EXCEPT !.body_html = Some(html)]
          ELSE SetBodyAttr([BlankComment EXCEPT !.body_html = Some(html)], value))
    /\ html_direct' = IF html_last THEN html_direct \cup {LastId(comments')}
                      ELSE html_direct
    /\ call' = Call("Comment(body, body_html)", LastId(comments'), NoToken, NoId, NoEmail)
    /\ UNCHANGED <<users, talks, pending, tokens, now>>

\* Comment() created without a body.
NewCommentNoBody ==
    /\ Cardinality(DOMAIN comments) < MaxBodyComments
    /\ comments' = Insert(comments, BlankComment)
    /\ call' = Call("Comment()", LastId(comments'), NoToken, NoId, NoEmail)
    /\ UNCHANGED <<users, talks, pending, tokens, now, html_direct>>

\* comment.body = value
SetBody(c, value) ==
    /\ comments' = [comments EXCEPT ![c] = SetBodyAttr(@, value)]
    /\ html_direct' = html_direct \ {c}
    /\ call' = Call("set_body", c, NoToken, NoId, NoEmail)
    /\ UNCHANGED <<users, talks, pending, tokens, now>>

\* comment.body_html = html: a plain column, no listener.
SetBodyHtml(c, html) ==
    /\ comments' = [comments EXCEPT ![c].body_html = Some(html)]
    /\ html_direct' = html_direct \cup {c}
    /\ call' = Call("set_body_html", c, NoToken, NoId, NoEmail)
    /\ UNCHANGED <<users, talks, pending, tokens, now>>

NextBody ==
    \/ \E v \in Bodies : NewCommentWithBody(v)
    \/ \E v \in Bodies, h \in HtmlInputs, last \in BOOLEAN : NewCommentWithBoth(v, h, last)
    \/ NewCommentNoBody
    \/ \E c \in DOMAIN comments, v \in Bodies : SetBody(c, v)
    \/ \E c \in DOMAIN comments, h \in HtmlInputs : SetBodyHtml(c, h)

SpecBody == Init /\ [][NextBody]_vars

\* The value on_changed_body derives from a stored body.
Derived(body) == IF body = None THEN None ELSE Some(Sanitize(body[1]))

\* What makes html the sanitized rendering of text, said without the
\* rendering functions: no tag outside the whitelist is left, every URL is
\* the content of an anchor, a non-blank text is one paragraph, and apart
\* from the markup added the items are those of the text, in order, without
\* the tags removed.
Markup == {"<p>", "</p>", "<a>", "</a>"}
IsRenderingOf(html, text) ==
    /\ \A i \in 1..Len(html) : html[i] \in Tags => html[i] \in allowed_tags
    /\ \A i \in 1..Len(html) :
          html[i] = Url => /\ 1 < i /\ i < Len(html)
                           /\ html[i - 1] = "<a>" /\ html[i + 1] = "</a>"
    /\ IF text = << >> THEN html = << >>
       ELSE Len(html) >= 2 /\ html[1] = "<p>" /\ html[Len(html)] = "</p>"
    /\ SelectSeq(html, LAMBDA x : x \notin Markup)
          = SelectSeq(text, LAMBDA x : ~(x \in Tags /\ x \notin allowed_tags))

\* C1 (as stated): in every reachable state every comment's body_html is the
\* sanitized rendering of its current body.
C1_AlwaysDerived ==
    \A c \in DOMAIN comments : comments[c].body_html = Derived(comments[c].body)

\* C1 (amended): in every reachable state, every comment whose body_html was
\* not written directly after the last write of its body has body_html equal
\* to the sanitized rendering of its current body, and no body_html when no
\* body was ever written.
C1_DerivedUnlessWrittenDirectly ==
    \A c \in DOMAIN comments \ html_direct :
        /\ comments[c].body_html = Derived(comments[c].body)
        /\ comments[c].body # None =>
              /\ comments[c].body_html # None
              /\ IsRenderingOf(comments[c].body_html[1], comments[c].body[1])

\* Witness of C1: one comment's body_html was overwritten directly and then
\* its body, holding a tag outside the whitelist and a URL, was assigned
\* again, so the stored rendering is the derived one; another comment's
\* body_html stays as directly written.
C1_Witness ==
    /\ call.op = "set_body"
    /\ call.id \notin html_direct
    /\ comments[call.id].body = Some(<<"<span>", Url>>)
    /\ comments[call.id].body_html = Some(<<"<p>", "<a>", Url, "</a>", "</p>">>)
    /\ \E d \in html_direct : comments[d].body_html # Derived(comments[d].body)

\* ------------------------------------------------------- user operations
EmailTaken(e) == \E u \in DOMAIN users : users[u].email = e

\* User(email=..., avatar_hash=..., is_admin=...) added and committed; the
\* email column is NOT NULL and unique.
NewUser(email, avatar_hash, is_admin) ==
    /\ Cardinality(DOMAIN users) < MaxUsers
    /\ email # NoEmail
    /\ ~EmailTaken(email)
    /\ users' = Insert(users, RegisteredAt(UserInit(email, avatar_hash, is_admin), now))
    /\ call' = Quiet
    /\ UNCHANGED <<talks, comments, pending, tokens, now, html_direct>>

\* user.email = email: a plain column assignment.
SetEmail(u, email) ==
    /\ email # users[u].email
    /\ ~EmailTaken(email)
    /\ users' = [users EXCEPT ![u].email = email]
    /\ call' = Quiet
    /\ UNCHANGED <<talks, comments, pending, tokens, now, html_direct>>

NextUser ==
    \/ \E e \in Emails, h \in Hashes \cup {NoHash} : NewUser(e, h, FALSE)
    \/ \E u \in DOMAIN users, e \in Emails : SetEmail(u, e)

SpecUser == Init /\ [][NextUser]_vars

\* C2 (as stated): every user whose email is set has avatar_hash equal to the
\* MD5 hash of the current email.
C2_AvatarIsMd5OfEmail ==
    \A u \in DOMAIN users :
        users[u].email # NoEmail => users[u].avatar_hash = md5(users[u].email)

\* ------------------------------------------------------- talk operations
\* Talk(author=user) added and committed.
NewTalk(author) ==
    /\ Cardinality(DOMAIN talks) < MaxTalks
    /\ talks' = Insert(talks, [user_id |-> author])
    /\ call' = Quiet
    /\ UNCHANGED <<users, comments, pending, tokens, now, html_direct>>

\* ------------------------------------------------- pending-email queue
\* PendingEmail.query.filter(talk_id == talk.id).filter(email == email).count()
PendingCount(email, talk) ==
    Cardinality({i \in 1..Len(pending) :
                    pending[i].talk_id = talk /\ pending[i].email = email})

\* Mutant of already_in_queue: an off-by-one comparison of the count.
already_in_queue_gt1(email, talk) == PendingCount(email, talk) > 1

\* PendingEmail.already_in_queue(email, talk)
already_in_queue(email, talk) == PendingCount(email, talk) > 0

\* A caller that follows the queue's discipline: it asks already_in_queue and
\* adds a PendingEmail row only on a negative answer.
Enqueue(email, talk) ==
    /\ Len(pending) < MaxQueue
    /\ IF already_in_queue(email, talk)
       THEN /\ pending' = pending
            /\ call' = Call("enqueue_skipped", talk, NoToken, NoId, email)
       ELSE /\ pending' = Append(pending, [email |-> email, talk_id |-> talk])
            /\ call' = Call("enqueue", talk, NoToken, NoId, email)
    /\ UNCHANGED <<users, talks, comments, tokens, now, html_direct>>

\* PendingEmail.remove(email): every row of that address, on any talk.
Remove(email) ==
    /\ pending' = SelectSeq(pending, LAMBDA row : row.email # email)
    /\ call' = Call("remove", NoId, NoToken, NoId, email)
    /\ UNCHANGED <<users, talks, comments, tokens, now, html_direct>>

NextQueue ==
    \/ NewTalk(NoId)
    \/ \E e \in Emails, t \in DOMAIN talks : Enqueue(e, t)
    \/ \E e \in Emails : Remove(e)

SpecQueue == Init /\ [][NextQueue]_vars

\* C4: already_in_queue(email, talk) answers true exactly when a row with
\* that email and that talk's id exists, and with every enqueue made only on
\* a negative answer the queue never holds two rows for one (email, talk).
C4_QueueDeduplicated ==
    /\ \A e \in Emails, t \in DOMAIN talks :
          already_in_queue(e, t) <=>
             \E i \in 1..Len(pending) : pending[i] = [email |-> e, talk_id |-> t]
    /\ \A i, j \in 1..Len(pending) : pending[i] = pending[j] => i = j

\* Witness of C4: an enqueue for a pair already queued was refused while the
\* same address is queued for another talk as well.
C4_Witness ==
    /\ call.op = "enqueue_skipped"
    /\ \E i, j \in 1..Len(pending) :
          /\ pending[i].email = call.ret_email /\ pending[i].talk_id = call.id
          /\ pending[j].email = call.ret_email /\ pending[j].talk_id # call.id

\* ------------------------------------------------------------ moderation
FreshEmail == CHOOSE e \in Emails : ~EmailTaken(e)

\* Comment(talk=..., author=..., author_email=..., notify=..., body=...)
\* added and committed; approved takes its default.
PostComment(talk, author, author_email, notify, body) ==
    /\ Cardinality(DOMAIN comments) < MaxComments
    /\ comments' = Insert(comments,
          SetBodyAttr([BlankComment EXCEPT !.talk_id = talk, !.author_id = author,
                          !.author_email = author_email, !.notify = notify], body))
    /\ call' = Quiet
    /\ UNCHANGED <<users, talks, pending, tokens, now, html_direct>>

\* comment.approved = True, the moderator's decision.
Approve(c) ==
    /\ ~comments[c].approved
    /\ comments' = [comments EXCEPT ![c].approved = TRUE]
    /\ call' = Quiet
    /\ UNCHANGED <<users, talks, pending, tokens, now, html_direct>>

\* Comment.for_moderation(): Comment.query.filter(Comment.approved == 0)
Comment_for_moderation == {c \in DOMAIN comments : comments[c].approved = FALSE}

\* Mutant of for_moderation: the admin argument is ignored.
for_moderation_any_admin(self, admin) ==
    IF users[self].is_admin
    THEN Comment_for_moderation
    ELSE {c \in DOMAIN comments :
            /\ \E t \in DOMAIN talks : comments[c].talk_id = t /\ talks[t].user_id = self
            /\ comments[c].approved = FALSE}

\* User.for_moderation(admin): every unapproved comment for an admin asking
\* as admin; otherwise the join of comments with the talks authored by self.
for_moderation(self, admin) ==
    IF admin /\ users[self].is_admin
    THEN Comment_for_moderation
    ELSE {c \in DOMAIN comments :
            /\ \E t \in DOMAIN talks : comments[c].talk_id = t /\ talks[t].user_id = self
            /\ comments[c].approved = FALSE}

\* Talk.approved_comments(): self.comments.filter_by(approved=True)
approved_comments(talk) ==
    {c \in DOMAIN comments : comments[c].talk_id = talk /\ comments[c].approved = TRUE}

NextModeration ==
    \/ \E adm \in BOOLEAN : NewUser(FreshEmail, NoHash, adm)
    \/ \E u \in DOMAIN users : NewTalk(u)
    \/ \E t \in DOMAIN talks : PostComment(t, NoId, "c@x", TRUE, <<"text">>)
    \/ \E c \in DOMAIN comments : Approve(c)

SpecModeration == Init /\ [][NextModeration]_vars

OwnTalk(u, c) ==
    comments[c].talk_id \in DOMAIN talks /\ talks[comments[c].talk_id].user_id = u

\* C7: for_moderation returns only unapproved comments; for an admin asking
\* as admin all of them, in every other case exactly the unapproved comments
\* on the user's own talks; never a comment approved_comments returns.
C7_ModerationByRole ==
    \A u \in DOMAIN users, admin \in BOOLEAN :
        LET r == for_moderation(u, admin)
        IN  /\ \A c \in r : ~comments[c].approved
            /\ (admin /\ users[u].is_admin) =>
                  \A c \in DOMAIN comments : ~comments[c].approved => c \in r
            /\ ~(admin /\ users[u].is_admin) =>
                  /\ \A c \in r : OwnTalk(u, c)
                  /\ \A c \in DOMAIN comments :
                        (~comments[c].approved /\ OwnTalk(u, c)) => c \in r
            /\ \A t \in DOMAIN talks : r \cap approved_comments(t) = {}

\* Witness of C7: an admin user sees, as admin, an unapproved comment on
\* another user's talk, does not see it when asking with admin=False, and an
\* approved comment exists that neither answer holds.
C7_Witness ==
    \E u \in DOMAIN users, c, d \in DOMAIN comments :
        /\ users[u].is_admin
        /\ c \in for_moderation(u, TRUE)
        /\ c \notin for_moderation(u, FALSE)
        /\ ~OwnTalk(u, c)
        /\ d \in approved_comments(comments[d].talk_id)
        /\ d \notin for_moderation(u, TRUE)

\* ------------------------------------------------------------------ tokens
\* current_app.config['SECRET_KEY'], and a key the application does not hold.
SECRET_KEY == "secret"
OtherKey == "other"
DefaultApiExpiration == 300
DefaultUnsubscribeExpiration == 604800

\* The signature of a JSON web signature: it matches only the key, header and
\* payload it was computed over.
Sign(key, iat, exp, payload) ==
    [key |-> key, iat |-> iat, exp |-> exp, payload |-> payload]

\* Serializer(key, expires_in).dumps(payload): the header carries the issue
\* time and the expiry, header and payload are signed.
dumps(key, expires_in, payload) ==
    [parts_ok |-> TRUE, iat |-> now, exp |-> now + expires_in, payload |-> payload,
     sig |-> Sign(key, now, now + expires_in, payload)]

\* Mutant of loads: the expiry in the header is not checked.
loads_no_expiry(key, token) ==
    /\ token.parts_ok
    /\ token.sig = Sign(key, token.iat, token.exp, token.payload)

\* Serializer(key).loads(token) returns the payload (TRUE) or raises (FALSE):
\* BadSignature for a token that does not parse or whose signature does not
\* match, SignatureExpired when the header's exp is before the current time.
loads(key, token) ==
    /\ token.parts_ok
    /\ token.sig = Sign(key, token.iat, token.exp, token.payload)
    /\ ~(token.exp < now)

\* Tokens a client can present: the issued ones, and what can be made of
\* them without the application's key.
Forgeries(t) ==
    {[t EXCEPT !.payload.user = 1], [t EXCEPT !.payload.talk = 1],
     [t EXCEPT !.payload.email = "c@x"], [t EXCEPT !.exp = t.exp + 1],
     [t EXCEPT !.sig = Sign(OtherKey, t.iat, t.exp, t.payload)],
     [t EXCEPT !.parts_ok = FALSE]} \ {t}
Issued == {i.tok : i \in tokens}
Presentable == Issued \cup UNION {Forgeries(t) : t \in Issued}

\* User.get_api_token(expiration)
get_api_token(self, expiration) ==
    /\ Cardinality(tokens) < MaxTokens
    /\ LET t == dumps(SECRET_KEY, expiration, [NoPayload EXCEPT !.user = self])
       IN  /\ tokens' = tokens \cup {[tok |-> t, by |-> "api", expiration |-> expiration,
                                    since |-> users[self].member_since]}
           /\ call' = Call("get_api_token", self, t, NoId, NoEmail)
    /\ UNCHANGED <<users, talks, comments, pending, now, html_direct>>

\* Talk.get_unsubscribe_token(email, expiration)
get_unsubscribe_token(self, email, expiration) ==
    /\ Cardinality(tokens) < MaxTokens
    /\ LET t == dumps(SECRET_KEY, expiration,
                      [NoPayload EXCEPT !.talk = self, !.email = email])
       IN  /\ tokens' = tokens \cup {[tok |-> t, by |-> "unsubscribe", expiration |-> expiration,
                                    since |-> 0]}
           /\ call' = Call("get_unsubscribe_token", self, t, NoId, NoEmail)
    /\ UNCHANGED <<users, talks, comments, pending, now, html_direct>>

\* Query.get(id): the row's key, or None.
Get(table, id) == IF id \in DOMAIN table THEN id ELSE NoId

\* Mutant of validate_api_token_result: the id is read from the wrong key.
validate_api_token_wrong_key(token) ==
    IF ~loads(SECRET_KEY, token) THEN NoId
    ELSE LET id == token.payload.talk
         IN  IF id # NoId THEN Get(users, id) ELSE NoId

\* User.validate_api_token(token): the user's id, or NoId for None.
validate_api_token_result(token) ==
    IF ~loads(SECRET_KEY, token) THEN NoId
    ELSE LET id == token.payload.user
         IN  IF id # NoId THEN Get(users, id) ELSE NoId

validate_api_token(token) ==
    /\ call' = Call("validate_api_token", NoId, token,
                    validate_api_token_result(token), NoEmail)
    /\ UNCHANGED <<users, talks, comments, pending, tokens, now, html_direct>>

\* Mutant of UnsubscribeUpdate: the filter on the talk is missing.
UnsubscribeUpdateAnyTalk(talk, email) ==
    [c \in DOMAIN comments |->
        IF comments[c].author_email = email
        THEN [comments[c] EXCEPT !.notify = FALSE] ELSE comments[c]]

\* Comment.query.filter_by(talk=talk).filter_by(author_email=email)
\*        .update(dict(notify=False))
UnsubscribeUpdate(talk, email) ==
    [c \in DOMAIN comments |->
        IF comments[c].talk_id = talk /\ comments[c].author_email = email
        THEN [comments[c] EXCEPT !.notify = FALSE] ELSE comments[c]]

\* Talk.unsubscribe_user(token): returns (talk, email) or (None, None).
unsubscribe_user(token) ==
    LET id == token.payload.talk
        email == token.payload.email
        refused == /\ comments' = comments
                   /\ call' = Call("unsubscribe_user", NoId, token, NoId, NoEmail)
    IN  /\ IF ~loads(SECRET_KEY, token) THEN refused
           ELSE IF id = NoId \/ email = NoEmail THEN refused
           ELSE IF Get(talks, id) = NoId THEN refused
           ELSE /\ comments' = UnsubscribeUpdate(id, email)
                /\ call' = Call("unsubscribe_user", NoId, token, id, email)
        /\ UNCHANGED <<users, talks, pending, tokens, now, html_direct>>

\* The clock of Serializer.now(), in whole seconds.
Tick ==
    /\ now < MaxTime
    /\ now' = now + 1
    /\ call' = Quiet
    /\ UNCHANGED <<users, talks, comments, pending, tokens, html_direct>>

\* db.session.delete(user): the relationships without a delete cascade set
\* the foreign keys of the user's talks and comments to NULL.
DeleteUser(u) ==
    /\ u \in DOMAIN users
    /\ users' = [k \in DOMAIN users \ {u} |-> users[k]]
    /\ talks' = [t \in DOMAIN talks |->
                    IF talks[t].user_id = u THEN [talks[t] EXCEPT !.user_id = NoId]
                    ELSE talks[t]]
    /\ comments' = [c \in DOMAIN comments |->
                    IF comments[c].author_id = u THEN [comments[c] EXCEPT !.author_id = NoId]
                    ELSE comments[c]]
    /\ call' = Quiet
    /\ UNCHANGED <<pending, tokens, now, html_direct>>

\* db.session.delete(talk): likewise for the talk's comments and emails.
DeleteTalk(t) ==
    /\ t \in DOMAIN talks
    /\ talks' = [k \in DOMAIN talks \ {t} |-> talks[k]]
    /\ comments' = [c \in DOMAIN comments |->
                    IF comments[c].talk_id = t THEN [comments[c] EXCEPT !.talk_id = NoId]
                    ELSE comments[c]]
    /\ pending' = [i \in DOMAIN pending |->
                    IF pending[i].talk_id = t THEN [pending[i] EXCEPT !.talk_id = NoId]
                    ELSE pending[i]]
    /\ call' = Quiet
    /\ UNCHANGED <<users, tokens, now, html_direct>>

\* A database two users have registered in and posted a talk each.
InitSite ==
    /\ users = Insert(Insert(<< >>, RegisteredAt(UserInit("a@x", NoHash, TRUE), 0)),
                      RegisteredAt(UserInit("b@x", NoHash, FALSE), 0))
    /\ talks = Insert(Insert(<< >>, [user_id |-> 1]), [user_id |-> 2])
    /\ comments = << >>
    /\ pending = << >>
    /\ tokens = {}
    /\ now = 0
    /\ call = Quiet
    /\ html_direct = {}

ApiExpirations == {1, DefaultApiExpiration}
UnsubscribeExpirations == {1, DefaultUnsubscribeExpiration}

\* The address a comment's author is reached at: the account's for a
\* registered author, author_email for an anonymous one.
AddressOf(c) ==
    IF comments[c].author_id # NoId THEN users[comments[c].author_id].email
    ELSE comments[c].author_email

\* Comment.notification_list(): the keys of the result dictionary.
notification_list(self) ==
    LET talk == comments[self].talk_id
    IN  {e \in Emails \cup {NoEmail} :
           \E c \in DOMAIN comments :
              /\ comments[c].talk_id = talk
              /\ comments[c].notify /\ ~(comments[c].author_id = talks[talk].user_id)
              /\ IF comments[c].author_id # NoId
                 THEN /\ comments[self].author_id # comments[c].author_id
                      /\ e = users[comments[c].author_id].email
                 ELSE /\ ~(comments[self].author_email = comments[c].author_email)
                      /\ e = comments[c].author_email}

\* Requests against the site that exercise the unsubscribe flow: visitors and
\* a registered user comment, unsubscribe links are mailed and followed.
NextUnsub ==
    \/ \E t \in DOMAIN talks, e \in {"b@x", "c@x"} :
          PostComment(t, NoId, e, TRUE, <<"text">>)
    \/ \E t \in DOMAIN talks : PostComment(t, 2, NoEmail, TRUE, <<"text">>)
    \/ \E t \in DOMAIN talks, e \in {"b@x", "c@x"} :
          get_unsubscribe_token(t, e, DefaultUnsubscribeExpiration)
    \/ \E t \in Presentable : unsubscribe_user(t)

SpecUnsub == InitSite /\ [][NextUnsub]_vars

\* Requests that exercise the refusal of tokens: both kinds are issued, time
\* passes, a talk is deleted, tokens are presented to both validators.
NextToken ==
    \/ PostComment(1, NoId, "c@x", TRUE, <<"text">>)
    \/ \E x \in ApiExpirations : get_api_token(2, x)
    \/ \E x \in UnsubscribeExpirations : get_unsubscribe_token(1, "c@x", x)
    \/ \E t \in Presentable : validate_api_token(t)
    \/ \E t \in Presentable : unsubscribe_user(t)
    \/ Tick
    \/ DeleteTalk(1)

SpecToken == InitSite /\ [][NextToken]_vars

\* Requests that exercise API authentication: users obtain tokens, time
\* passes, accounts are deleted and new ones registered (the new row takes
\* the key after the highest one in use, up to MaxKey), tokens are presented.
NextApi ==
    \/ \E u \in DOMAIN users, x \in ApiExpirations : get_api_token(u, x)
    \/ \E t \in Presentable : validate_api_token(t)
    \/ Tick
    \/ \E u \in DOMAIN users : DeleteUser(u)
    \/ \E e \in Emails : LastId(users) < MaxKey /\ NewUser(e, NoHash, FALSE)

SpecApi == InitSite /\ [][NextApi]_vars

IssuedBy(kind) == {i \in tokens : i.by = kind}

\* C3 (as stated, the part on the user): validate_api_token returns user u
\* only for a token that u's own get_api_token produced, so u was registered
\* when the token was issued and is the user the token names; a token naming
\* a deleted user yields None.
C3_ReturnsTheIssuingUser ==
    (call.op = "validate_api_token" /\ call.ret_id # NoId) =>
        \E i \in IssuedBy("api") :
            /\ i.tok = call.token
            /\ call.token.payload.user = call.ret_id
            /\ users[call.ret_id].member_since = i.since
            /\ users[call.ret_id].member_since <= call.token.iat

\* C5: unsubscribe_user with a valid, unexpired token of
\* get_unsubscribe_token(email) for an existing talk returns (talk, email) and
\* sets notify to False on exactly the comments of that talk whose
\* author_email is email; every other comment and field is unchanged.
C5_UnsubscribeFrame ==
    [][(/\ call'.op = "unsubscribe_user"
        /\ \E i \in IssuedBy("unsubscribe") : i.tok = call'.token
        /\ ~(call'.token.exp < now)
        /\ call'.token.payload.talk \in DOMAIN talks)
       => LET talk == call'.token.payload.talk
              email == call'.token.payload.email
          IN  /\ call'.ret_id = talk /\ call'.ret_email = email
              /\ DOMAIN comments' = DOMAIN comments
              /\ \A c \in DOMAIN comments :
                    IF comments[c].talk_id = talk /\ comments[c].author_email = email
                    THEN comments'[c] = [comments[c] EXCEPT !.notify = FALSE]
                    ELSE comments'[c] = comments[c]]_vars

\* Witness of C5: an unsubscribe succeeded, a comment of the talk by that
\* address has notify False, and a comment by the same address on another
\* talk still has notify True.
C5_Witness ==
    /\ call.op = "unsubscribe_user"
    /\ call.ret_id # NoId
    /\ \E c, d \in DOMAIN comments :
          /\ comments[c].talk_id = call.ret_id
          /\ comments[c].author_email = call.ret_email
          /\ ~comments[c].notify
          /\ comments[d].talk_id # call.ret_id
          /\ comments[d].author_email = call.ret_email
          /\ comments[d].notify

\* A token unsubscribe_user must refuse: expired, not one the application
\* issued (tampered, signed with another key, malformed), without a talk id
\* or an email, or naming a talk that does not exist.
Refusable(t) ==
    \/ t.exp < now
    \/ t \notin Issued
    \/ ~t.parts_ok
    \/ t.payload.talk = NoId
    \/ t.payload.email = NoEmail
    \/ t.payload.talk \notin DOMAIN talks

\* C6: for such a token unsubscribe_user returns (None, None) and changes no
\* comment.
C6_RefusedUnsubscribe ==
    [][(call'.op = "unsubscribe_user" /\ Refusable(call'.token))
       => /\ call'.ret_id = NoId /\ call'.ret_email = NoEmail
          /\ comments' = comments]_vars

\* Witness of C6: an expired unsubscribe token for an existing talk was
\* refused while a comment it names still has notify True.
C6_Witness ==
    /\ call.op = "unsubscribe_user"
    /\ call.ret_id = NoId
    /\ \E i \in IssuedBy("unsubscribe") : i.tok = call.token
    /\ call.token.exp < now
    /\ \E c \in DOMAIN comments :
          /\ comments[c].talk_id = call.token.payload.talk
          /\ comments[c].author_email = call.token.payload.email
          /\ comments[c].notify

\* C8 (as stated): notification_list() of a comment holds only addresses of
\* commenters on the same talk with a notify-true comment, and never the
\* address of the comment's own author nor of the talk's author.
C8_NotificationList ==
    \A c \in DOMAIN comments :
        comments[c].talk_id \in DOMAIN talks =>
            \A e \in notification_list(c) :
                /\ \E d \in DOMAIN comments :
                      /\ comments[d].talk_id = comments[c].talk_id
                      /\ comments[d].notify
                      /\ AddressOf(d) = e
                /\ e # AddressOf(c)
                /\ talks[comments[c].talk_id].user_id # NoId =>
                      e # users[talks[comments[c].talk_id].user_id].email

\* C9 (as stated): once unsubscribe_user has succeeded for (talk, email), no
\* comment of that talk has email in its notification_list().
C9_UnsubscribeStopsNotifications ==
    (call.op = "unsubscribe_user" /\ call.ret_id # NoId) =>
        \A c \in DOMAIN comments :
            comments[c].talk_id = call.ret_id =>
                call.ret_email \notin notification_list(c)

\* C10: a token of get_unsubscribe_token presented to validate_api_token
\* yields None, and a token of get_api_token presented to unsubscribe_user
\* yields (None, None) and changes no comment.
C10_TokensNotInterchangeable ==
    [][/\ (/\ call'.op = "validate_api_token"
           /\ \E i \in IssuedBy("unsubscribe") : i.tok = call'.token)
          => call'.ret_id = NoId
       /\ (/\ call'.op = "unsubscribe_user"
           /\ \E i \in IssuedBy("api") : i.tok = call'.token)
          => /\ call'.ret_id = NoId /\ call'.ret_email = NoEmail
             /\ comments' = comments]_vars

\* Witness of C10: an unexpired unsubscribe token whose talk id is also the
\* id of an existing user was presented as an API token and authenticated
\* nobody.
C10_Witness ==
    /\ call.op = "validate_api_token"
    /\ call.ret_id = NoId
    /\ \E i \in IssuedBy("unsubscribe") : i.tok = call.token
    /\ loads(SECRET_KEY, call.token)
    /\ call.token.payload.talk \in DOMAIN users

====
